---- MODULE Spec2Model ----
(***************************************************************************)
(* A model of tlrc's page renderer (src/output.rs): the highlight function *)
(* and PageRenderer::render with its per-role formatting routines.         *)
(*                                                                         *)
(* A Rust string is a sequence of one-character strings.  The escape       *)
(* sequences yansi writes around painted text are single elements of the   *)
(* sequence: the name of the style to switch it on, RESET to end it.       *)
(* Indexes are 1-based here and 0-based in the source.                     *)
(***************************************************************************)
EXTENDS Naturals, Sequences, FiniteSets

VARIABLES
    doc,            \* the page behind `reader`: the lines read_line yields, in order
    cfg,            \* `cfg` and `style`: the flags, the indentation and whether styles paint
    platform,       \* path.page_platform(): <<>> is None, <<p>> is Some(p)
    current_line,   \* PageRenderer::current_line
    lnum,           \* PageRenderer::lnum
    stdout,         \* what has been written to the BufWriter
    state,          \* ReadingLines, Done or Failed: where render is
    role,           \* the branch of render's dispatch taken for the current line
    err,            \* the Error render returned (<<>> while there is none)
    flushed,        \* whether stdout.flush() has run
    hl_args,        \* the arguments of a direct call of highlight (<<>>: none)
    hl_out          \* the String that call returned (<<>> before it returns)

vars == <<doc, cfg, platform, current_line, lnum, stdout, state, role, err,
          flushed, hl_args, hl_out>>

----------------------------------------------------------------------------
(* Bounds of the model *)

\* lines per page in Spec
MaxLines == 3
\* characters per line in SpecLine
MaxLineLen == 3
\* tokens after the opening backtick of an example line in SpecLine
MaxTok == 4
\* tokens per input string in SpecHL
MaxHlTok == 4

----------------------------------------------------------------------------
(* The constants of output.rs *)

TITLE == <<"#", " ">>
DESC == <<">", " ">>
BULLET == <<"-", " ">>
\* the backtick character, written by its code point
Backtick == "U+0060"
EXAMPLE == <<Backtick>>

BQ == <<Backtick>>
URL_START == <<"<", "h", "t", "t", "p">>
URL_END == <<">">>
PH_START == <<"{", "{">>
PH_END == <<"}", "}">>
ESC_OPEN == <<"\\", "{", "\\", "{">>
ESC_CLOSE == <<"\\", "}", "\\", "}">>
PAD_OPEN == <<" ">> \o ESC_OPEN \o <<" ">>
PAD_CLOSE == <<" ">> \o ESC_CLOSE \o <<" ">>

\* char::is_whitespace, on the characters the model uses
Whitespace == {" ", "\n", "\t"}

\* Style::default(): paints nothing around the text
Plain == ""
RESET == "reset"
StyleNames == {"title", "desc", "bullet", "example", "url", "inline_code", "placeholder"}
Markers == StyleNames \cup {RESET}

----------------------------------------------------------------------------
(* The string functions of the standard library that output.rs calls *)

\* whether p occurs in s at index i
MatchAt(s, p, i) ==
    /\ i >= 1
    /\ i + Len(p) - 1 <= Len(s)
    /\ \A k \in 1..Len(p) : s[i + k - 1] = p[k]

\* str::starts_with
StartsWith(s, p) == MatchAt(s, p, 1)

\* the index of the leftmost occurrence of p in s at or after i, 0 if none
RECURSIVE Find(_, _, _)
Find(s, p, i) ==
    IF i + Len(p) - 1 > Len(s) THEN 0
    ELSE IF MatchAt(s, p, i) THEN i
    ELSE Find(s, p, i + 1)

\* str::contains
Contains(s, p) == Find(s, p, 1) # 0

\* s from index i to its end
From(s, i) == SubSeq(s, i, Len(s))

\* str::split(p).collect(): the pieces between the non-overlapping occurrences of p
RECURSIVE Split(_, _)
Split(s, p) ==
    LET i == Find(s, p, 1)
    IN  IF i = 0 THEN <<s>>
        ELSE <<SubSeq(s, 1, i - 1)>> \o Split(From(s, i + Len(p)), p)

\* str::replace(from, to)
RECURSIVE Replace(_, _, _)
Replace(s, from, to) ==
    LET i == Find(s, from, 1)
    IN  IF i = 0 THEN s
        ELSE SubSeq(s, 1, i - 1) \o to \o Replace(From(s, i + Len(from)), from, to)

\* str::strip_prefix(p).unwrap()
StripPrefix(s, p) == From(s, Len(p) + 1)

\* str::trim_end
RECURSIVE TrimEnd(_)
TrimEnd(s) ==
    IF Len(s) > 0 /\ s[Len(s)] \in Whitespace THEN TrimEnd(SubSeq(s, 1, Len(s) - 1))
    ELSE s

\* the index of the rightmost occurrence of p that ends at or before index e, 0 if none
RECURSIVE RFind(_, _, _)
RFind(s, p, e) ==
    IF e < Len(p) THEN 0
    ELSE IF MatchAt(s, p, e - Len(p) + 1) THEN e - Len(p) + 1
    ELSE RFind(s, p, e - 1)

\* str::rmatch_indices(p): the indexes of the non-overlapping occurrences of p found
\* searching from the end of s, in the order the iterator yields them
RECURSIVE RMatchIndices(_, _, _)
RMatchIndices(s, p, e) ==
    LET i == RFind(s, p, e)
    IN  IF i = 0 THEN <<>> ELSE <<i>> \o RMatchIndices(s, p, i - 1)

\* Iterator::last().unwrap()
Last(q) == q[Len(q)]

\* str::repeat(n) of a one-character string
RECURSIVE Repeat(_, _)
Repeat(c, n) == IF n = 0 THEN <<>> ELSE <<c>> \o Repeat(c, n - 1)

\* Style::paint(text).to_string()
Paint(style, text) ==
    IF style = Plain THEN text ELSE <<style>> \o text \o <<RESET>>

----------------------------------------------------------------------------
(* highlight *)

\* the start == end loop of highlight: the pieces from index i on
RECURSIVE HlSymmetric(_, _, _, _)
HlSymmetric(split, i, style_normal, style_hl) ==
    IF i > Len(split) THEN <<>>
    ELSE (IF (i - 1) % 2 = 0 THEN Paint(style_normal, split[i])
          ELSE Paint(style_hl, split[i]))
         \o HlSymmetric(split, i + 1, style_normal, style_hl)

\* the URL branch: part.split_once at the first closing angle bracket, then painted
HlUrlPart(part, style_normal, style_hl) ==
    LET i == Find(part, URL_END, 1)
    IN  Paint(style_hl, <<"h", "t", "t", "p">> \o SubSeq(part, 1, i - 1))
        \o Paint(style_normal, From(part, i + 1))

\* part.rmatch_indices(end).last().unwrap().0
\* a variant of the definition after it: the first index the iterator yields, the rightmost
PhSplitIdxFirstYielded(part) == RMatchIndices(part, PH_END, Len(part))[1]

\* a variant of the definition after it: the leftmost occurrence, as str::find gives it
PhSplitIdxLeftmost(part) == Find(part, PH_END, 1)

PhSplitIdx(part) == Last(RMatchIndices(part, PH_END, Len(part)))

\* the placeholder branch: split_at(idx), then the two characters of end skipped
HlPlaceholderPart(part, style_normal, style_hl) ==
    LET idx == PhSplitIdx(part)
    IN  Paint(style_hl, SubSeq(part, 1, idx - 1)) \o Paint(style_normal, From(part, idx + 2))

\* the body of the `for part in split` loop
HlPart(end, part, style_normal, style_hl) ==
    IF Contains(part, end)
    THEN IF end = URL_END THEN HlUrlPart(part, style_normal, style_hl)
         ELSE HlPlaceholderPart(part, style_normal, style_hl)
    ELSE Paint(style_normal, part)

\* the `for part in split` loop: every piece, the first one included
RECURSIVE HlAsymmetric(_, _, _, _, _)
HlAsymmetric(split, i, end, style_normal, style_hl) ==
    IF i > Len(split) THEN <<>>
    ELSE HlPart(end, split[i], style_normal, style_hl)
         \o HlAsymmetric(split, i + 1, end, style_normal, style_hl)

\* a variant of the definition after it: the loops start at the second piece
highlightSkipsFirstPiece(start, end, s, style_normal, style_hl) ==
    LET split == Split(s, start)
    IN  IF Len(split) = 1 THEN Paint(style_normal, s)
        ELSE IF start = end THEN HlSymmetric(split, 2, style_normal, style_hl)
        ELSE HlAsymmetric(split, 2, end, style_normal, style_hl)

highlight(start, end, s, style_normal, style_hl) ==
    LET split == Split(s, start)
    IN  IF Len(split) = 1 THEN Paint(style_normal, s)
        ELSE IF start = end THEN HlSymmetric(split, 1, style_normal, style_hl)
        ELSE HlAsymmetric(split, 1, end, style_normal, style_hl)

----------------------------------------------------------------------------
(* PageRenderer *)

\* the Style a role is painted with: RenderStyles, as PageRenderer::print builds it
StyleOf(name) == IF cfg.colored THEN name ELSE Plain

\* the branch render's if/else chain takes for a line
\* a variant of the definition after it: the Title test without the space of the prefix
DispatchTitleWithoutSpace(line) ==
    IF StartsWith(line, <<"#">>) THEN "Title"
    ELSE IF StartsWith(line, DESC) THEN "Description"
    ELSE IF StartsWith(line, BULLET) THEN "Bullet"
    ELSE IF StartsWith(line, EXAMPLE) THEN "Example"
    ELSE IF \A i \in 1..Len(line) : line[i] \in Whitespace THEN "Blank"
    ELSE "Invalid"

\* a variant of the definition after it: no whitespace test, every other line taken as Blank
DispatchInvalidAsBlank(line) ==
    IF StartsWith(line, TITLE) THEN "Title"
    ELSE IF StartsWith(line, DESC) THEN "Description"
    ELSE IF StartsWith(line, BULLET) THEN "Bullet"
    ELSE IF StartsWith(line, EXAMPLE) THEN "Example"
    ELSE "Blank"

Dispatch(line) ==
    IF StartsWith(line, TITLE) THEN "Title"
    ELSE IF StartsWith(line, DESC) THEN "Description"
    ELSE IF StartsWith(line, BULLET) THEN "Bullet"
    ELSE IF StartsWith(line, EXAMPLE) THEN "Example"
    ELSE IF \A i \in 1..Len(line) : line[i] \in Whitespace THEN "Blank"
    ELSE "Invalid"

\* what add_title writes for the line
add_title(line) ==
    IF ~cfg.show_title THEN <<>>
    ELSE LET l == StripPrefix(line, TITLE)
             title == IF cfg.platform_title /\ platform # <<>>
                      THEN platform[1] \o <<"/">> \o l
                      ELSE l
         IN  (IF ~cfg.compact THEN <<"\n">> ELSE <<>>)
             \o Repeat(" ", cfg.indent.title)
             \o Paint(StyleOf("title"), title)

\* what add_desc writes for the line
add_desc(line) ==
    Repeat(" ", cfg.indent.description)
    \o highlight(BQ, BQ,
                 highlight(URL_START, URL_END, StripPrefix(line, DESC),
                           StyleOf("desc"), StyleOf("url")),
                 StyleOf("desc"), StyleOf("inline_code"))

\* current_line as add_bullet leaves it: replace_range(..2, example_prefix)
BulletLine(line) ==
    IF cfg.show_hyphens THEN cfg.example_prefix \o From(line, 3) ELSE line

\* what add_bullet writes for the line
add_bullet(line) ==
    LET l == IF cfg.show_hyphens THEN BulletLine(line) ELSE StripPrefix(line, BULLET)
    IN  Repeat(" ", cfg.indent.bullet)
        \o highlight(BQ, BQ,
                     highlight(URL_START, URL_END, l, StyleOf("bullet"), StyleOf("url")),
                     StyleOf("bullet"), StyleOf("inline_code"))

\* current_line as add_example leaves it: spaces added around escaped curly braces
ExamplePadded(line) ==
    Replace(Replace(line, ESC_OPEN, PAD_OPEN), ESC_CLOSE, PAD_CLOSE)

\* strip_prefix(EXAMPLE).unwrap().trim_end(), of the padded line
ExampleTrimmed(line) == TrimEnd(StripPrefix(ExamplePadded(line), EXAMPLE))

\* whether strip_suffix finds the closing backtick
\* a variant of the definition after it: the suffix looked for without stripping the prefix
ExampleClosedAnyBacktick(line) ==
    LET t == TrimEnd(ExamplePadded(line)) IN Len(t) > 0 /\ t[Len(t)] = Backtick

ExampleClosed(line) ==
    LET t == ExampleTrimmed(line) IN Len(t) > 0 /\ t[Len(t)] = Backtick

\* the text between the backticks, handed to highlight
ExampleContent(line) ==
    LET t == ExampleTrimmed(line) IN SubSeq(t, 1, Len(t) - 1)

\* the two replace calls on the highlighted String: the extra spaces and backslashes go
\* a variant of the definition after it: only the extra spaces removed
ExampleUnpadKeepsBackslashes(painted) ==
    Replace(Replace(painted, PAD_OPEN, ESC_OPEN), PAD_CLOSE, ESC_CLOSE)

ExampleUnpad(painted) ==
    Replace(Replace(painted, PAD_OPEN, PH_START), PAD_CLOSE, PH_END)

\* what add_example writes for a line with its closing backtick
add_example(line) ==
    Repeat(" ", cfg.indent.example)
    \o ExampleUnpad(highlight(PH_START, PH_END, ExampleContent(line),
                              StyleOf("example"), StyleOf("placeholder")))
    \o <<"\n">>

\* what add_newline writes
\* a variant of the definition after it: compact mode ignored
add_newlineAlways == <<"\n">>

add_newline == IF ~cfg.compact THEN <<"\n">> ELSE <<>>

\* Error::parse_page(path, lnum, line)
ParseError(n, line) == [kind |-> "ParsePage", lnum |-> n, line |-> line]

----------------------------------------------------------------------------
(* The pages and configurations the model renders *)

NL == <<"\n">>

\* the lines of the pages of Spec, one or two of each role
PageLines ==
    { TITLE \o <<"a">> \o NL,
      DESC \o URL_START \o <<"a", ">">> \o BQ \o <<"a">> \o BQ \o NL,
      BULLET \o <<"a">> \o NL,
      EXAMPLE \o <<"a", " ">> \o PH_START \o <<"b">> \o PH_END \o BQ \o NL,
      EXAMPLE \o ESC_OPEN \o <<"a">> \o NL,
      <<" ">> \o NL,
      <<"a">> \o NL,
      EXAMPLE \o <<"a">> \o BQ }

\* read_line ends a line at its newline: only the last line of a page can lack one
IsPage(d) == \A i \in 1..Len(d) : i < Len(d) => d[i][Len(d[i])] = "\n"

Pages == { d \in UNION { [1..n -> PageLines] : n \in 0..MaxLines } : IsPage(d) }

Indents ==
    { [title |-> 0, description |-> 0, bullet |-> 0, example |-> 0],
      [title |-> 2, description |-> 2, bullet |-> 2, example |-> 4] }

Configs ==
    [ compact : BOOLEAN, show_title : BOOLEAN, platform_title : BOOLEAN,
      show_hyphens : BOOLEAN, colored : BOOLEAN,
      example_prefix : { <<"*">> }, indent : Indents ]

Platforms == { <<>>, << <<"o", "s">> >> }

\* the state PageRenderer::print constructs
Constructed ==
    /\ current_line = <<>>
    /\ lnum = 0
    /\ stdout = <<>>
    /\ state = "ReadingLines"
    /\ role = "None"
    /\ err = <<>>
    /\ flushed = FALSE

Init ==
    /\ doc \in Pages
    /\ cfg \in Configs
    /\ platform \in Platforms
    /\ Constructed
    /\ hl_args = <<>>
    /\ hl_out = <<>>

----------------------------------------------------------------------------
(* render: one action per turn of its loop, by the branch taken *)

\* next_line returned a line: lnum is incremented and the line is current
Reads(r) ==
    /\ state = "ReadingLines"
    /\ lnum < Len(doc)
    /\ Dispatch(doc[lnum + 1]) = r
    /\ lnum' = lnum + 1
    /\ role' = r
    /\ UNCHANGED <<doc, cfg, platform, hl_args, hl_out>>

AddTitle ==
    /\ Reads("Title")
    /\ current_line' = doc[lnum + 1]
    /\ stdout' = stdout \o add_title(doc[lnum + 1])
    /\ UNCHANGED <<state, err, flushed>>

AddDesc ==
    /\ Reads("Description")
    /\ current_line' = doc[lnum + 1]
    /\ stdout' = stdout \o add_desc(doc[lnum + 1])
    /\ UNCHANGED <<state, err, flushed>>

AddBullet ==
    /\ Reads("Bullet")
    /\ current_line' = BulletLine(doc[lnum + 1])
    /\ stdout' = stdout \o add_bullet(doc[lnum + 1])
    /\ UNCHANGED <<state, err, flushed>>

AddExample ==
    /\ Reads("Example")
    /\ current_line' = ExamplePadded(doc[lnum + 1])
    /\ IF ExampleClosed(doc[lnum + 1])
       THEN /\ stdout' = stdout \o add_example(doc[lnum + 1])
            /\ UNCHANGED <<state, err>>
       ELSE /\ state' = "Failed"
            /\ err' = ParseError(lnum', current_line')
            /\ UNCHANGED stdout
    /\ UNCHANGED flushed

AddNewline ==
    /\ Reads("Blank")
    /\ current_line' = doc[lnum + 1]
    /\ stdout' = stdout \o add_newline
    /\ UNCHANGED <<state, err, flushed>>

InvalidLine ==
    /\ Reads("Invalid")
    /\ current_line' = doc[lnum + 1]
    /\ state' = "Failed"
    /\ err' = ParseError(lnum', current_line')
    /\ UNCHANGED <<stdout, flushed>>

\* next_line returned 0: the trailing add_newline, then the flush
EndOfInput ==
    /\ state = "ReadingLines"
    /\ lnum = Len(doc)
    /\ lnum' = lnum + 1
    /\ current_line' = <<>>
    /\ stdout' = stdout \o add_newline
    /\ flushed' = TRUE
    /\ state' = "Done"
    /\ UNCHANGED <<doc, cfg, platform, role, err, hl_args, hl_out>>

Next ==
    \/ AddTitle
    \/ AddDesc
    \/ AddBullet
    \/ AddExample
    \/ AddNewline
    \/ InvalidLine
    \/ EndOfInput

Spec == Init /\ [][Next]_vars

----------------------------------------------------------------------------
(* SpecLine: render on a page of one line, the line drawn from every short *)
(* string and from every example line built of a few tokens                *)

\* the concatenation of a sequence of strings
RECURSIVE Flat(_)
Flat(q) == IF q = <<>> THEN <<>> ELSE q[1] \o Flat(Tail(q))

LineAlphabet == {"#", ">", "-", Backtick, " ", "a", "\n"}

\* a line as read_line yields it: not empty, a newline only as its last character
AllLines ==
    { l \in UNION { [1..n -> LineAlphabet] : n \in 1..MaxLineLen } :
        \A i \in 1..(Len(l) - 1) : l[i] # "\n" }

ExTokens == { ESC_OPEN, ESC_CLOSE, PH_START, PH_END, <<"}">>, <<"a">>, <<" ">>, BQ }

ExampleLines ==
    { EXAMPLE \o Flat(t) : t \in UNION { [1..n -> ExTokens] : n \in 0..MaxTok } }

LineConfigs ==
    [ compact : BOOLEAN, show_title : {TRUE}, platform_title : {FALSE},
      show_hyphens : {FALSE}, colored : BOOLEAN,
      example_prefix : { <<"*">> }, indent : Indents ]

InitLine ==
    /\ doc \in { <<l>> : l \in AllLines \cup ExampleLines }
    /\ cfg \in LineConfigs
    /\ platform = <<>>
    /\ Constructed
    /\ hl_args = <<>>
    /\ hl_out = <<>>

SpecLine == InitLine /\ [][Next]_vars

----------------------------------------------------------------------------
(* SpecHL: highlight called on its own, as add_desc, add_bullet and        *)
(* add_example call it                                                     *)

HlTokens == { BQ, URL_START, URL_END, PH_START, PH_END, <<"}">>, <<"a">> }

HlInputs == { Flat(t) : t \in UNION { [1..n -> HlTokens] : n \in 0..MaxHlTok } }

\* the delimiter pairs and styles of the call sites, painting or plain
HlCalls ==
    { [start |-> BQ, end |-> BQ, style_normal |-> "desc", style_hl |-> "inline_code"],
      [start |-> URL_START, end |-> URL_END, style_normal |-> "desc", style_hl |-> "url"],
      [start |-> PH_START, end |-> PH_END, style_normal |-> "example",
       style_hl |-> "placeholder"],
      [start |-> BQ, end |-> BQ, style_normal |-> Plain, style_hl |-> Plain],
      [start |-> URL_START, end |-> URL_END, style_normal |-> Plain, style_hl |-> Plain],
      [start |-> PH_START, end |-> PH_END, style_normal |-> Plain, style_hl |-> Plain] }

InitHL ==
    /\ doc = <<>>
    /\ cfg \in { c \in LineConfigs : c.compact /\ c.colored /\ c.indent.title = 0 }
    /\ platform = <<>>
    /\ Constructed
    /\ hl_args \in { <<[call |-> c, s |-> s]>> : c \in HlCalls, s \in HlInputs }
    /\ hl_out = <<>>

\* the call returns its String
HighlightCall ==
    /\ hl_args # <<>>
    /\ hl_out = <<>>
    /\ hl_out' = << highlight(hl_args[1].call.start, hl_args[1].call.end, hl_args[1].s,
                              hl_args[1].call.style_normal, hl_args[1].call.style_hl) >>
    /\ UNCHANGED <<doc, cfg, platform, current_line, lnum, stdout, state, role, err,
                   flushed, hl_args>>

NextHL == HighlightCall

SpecHL == InitHL /\ [][NextHL]_vars

----------------------------------------------------------------------------
(* Properties of highlight, under SpecHL *)

\* a painted String with the escape sequences taken out
Stripped(text) == SelectSeq(text, LAMBDA c : c \notin Markers)

\* the direct call has returned, and was made with this start token
Returned(start) == hl_out # <<>> /\ hl_args[1].call.start = start

HlS == hl_args[1].s
HlNormal == hl_args[1].call.style_normal
HlHl == hl_args[1].call.style_hl
HlOut == hl_out[1]

\* s occurs in t somewhere, stated on the characters
Occurs(p, t) == \E i \in 1..Len(t) : MatchAt(t, p, i)

\* C3 as the spec states it: for the inline-code pair and for the URL pair, the
\* output with styling stripped is the input string, delimiters included.
C3_RoundTrip ==
    (Returned(BQ) \/ Returned(URL_START)) => Stripped(HlOut) = HlS

\* C3, amended: for the inline-code pair the output with styling stripped is the
\* input with every backtick removed and nothing else removed, added or moved;
\* for the URL pair it is the input exactly when the input holds no start token,
\* and differs from the input whenever it holds one.
C3_DelimitersDropped ==
    /\ Returned(BQ) => Stripped(HlOut) = SelectSeq(HlS, LAMBDA c : c # Backtick)
    /\ Returned(URL_START) => (Stripped(HlOut) = HlS <=> ~Occurs(URL_START, HlS))

C3_Witness ==
    /\ Returned(BQ)
    /\ HlS = <<"a">> \o BQ \o <<"a">> \o BQ
    /\ Stripped(HlOut) = <<"a", "a">>

\* the input is a start token, then x without a brace, then three closing braces
ThreeBraces ==
    /\ Len(HlS) >= 5
    /\ SubSeq(HlS, 1, 2) = PH_START
    /\ From(HlS, Len(HlS) - 2) = <<"}", "}", "}">>
    /\ \A i \in 3..(Len(HlS) - 3) : HlS[i] \notin {"{", "}"}

ThreeBracesX == SubSeq(HlS, 3, Len(HlS) - 3)

\* C5 as the spec states it: on a start token followed by x and three closing
\* braces, the highlighted span is x and one closing brace follows it in normal style.
C5_OneBraceOutside ==
    (Returned(PH_START) /\ ThreeBraces) =>
        HlOut = Paint(HlNormal, <<>>) \o Paint(HlHl, ThreeBracesX)
                \o Paint(HlNormal, <<"}">>)

\* C5, amended: on a start token followed by x and three closing braces, the
\* highlighted span is x with the first closing brace, the last two braces are the
\* terminator, and no closing brace is written outside the span.
C5_FirstBraceInside ==
    (Returned(PH_START) /\ ThreeBraces) =>
        HlOut = Paint(HlNormal, <<>>) \o Paint(HlHl, ThreeBracesX \o <<"}">>)
                \o Paint(HlNormal, <<>>)

C5_Witness ==
    /\ Returned(PH_START)
    /\ HlS = PH_START \o <<"a", "}", "}", "}">>
    /\ HlHl = "placeholder"
    /\ HlOut = <<"example", RESET, "placeholder", "a", "}", RESET, "example", RESET>>

\* the asymmetric call was made on an input that holds a start token
AsymmetricWithStart ==
    /\ hl_out # <<>>
    /\ hl_args[1].call.start # hl_args[1].call.end
    /\ Occurs(hl_args[1].call.start, HlS)

\* the text before the first start token
FirstPiece ==
    LET f == CHOOSE i \in 1..Len(HlS) :
                 /\ MatchAt(HlS, hl_args[1].call.start, i)
                 /\ \A j \in 1..(i - 1) : ~MatchAt(HlS, hl_args[1].call.start, j)
    IN  SubSeq(HlS, 1, f - 1)

\* C9: in the asymmetric case, on an input that holds a start token, the text
\* before the first start token is written unchanged and in the normal style,
\* whatever it holds.
C9_FirstPieceNormal ==
    AsymmetricWithStart =>
        SubSeq(HlOut, 1, Len(Paint(HlNormal, FirstPiece))) = Paint(HlNormal, FirstPiece)

\* the placeholder call was made on an input that holds a start token
PlaceholderWithStart == Returned(PH_START) /\ Occurs(PH_START, HlS)

\* the rightmost occurrence of the end token in piece p
RightmostEnd(p) ==
    CHOOSE i \in 1..Len(p) :
        /\ MatchAt(p, PH_END, i)
        /\ \A j \in (i + 1)..Len(p) : ~MatchAt(p, PH_END, j)

\* the leftmost occurrence of the end token in piece p
LeftmostEnd(p) ==
    CHOOSE i \in 1..Len(p) :
        /\ MatchAt(p, PH_END, i)
        /\ \A j \in 1..(i - 1) : ~MatchAt(p, PH_END, j)

\* the number of closing braces of the run of p that starts at the leftmost occurrence
FirstRunLen(p) ==
    CHOOSE n \in 2..Len(p) :
        /\ \A k \in 0..(n - 1) : p[LeftmostEnd(p) + k] = "}"
        /\ (LeftmostEnd(p) + n > Len(p) \/ p[LeftmostEnd(p) + n] # "}")

\* in the first run of closing braces of p: its start, one later when it is odd
FirstRunEnd(p) == LeftmostEnd(p) + (FirstRunLen(p) % 2)

\* piece p written as split at idx: highlighted before it, normal after its two characters
SplitAt(p, idx) ==
    Paint(HlHl, SubSeq(p, 1, idx - 1)) \o Paint(HlNormal, From(p, idx + 2))

\* the pieces from the i-th on, each that holds the end token split at its rightmost
\* occurrence (rightmost = TRUE) or in its first run of closing braces
RECURSIVE PiecesSplit(_, _, _)
PiecesSplit(pieces, i, rightmost) ==
    IF i > Len(pieces) THEN <<>>
    ELSE (IF Occurs(PH_END, pieces[i])
          THEN SplitAt(pieces[i], IF rightmost THEN RightmostEnd(pieces[i])
                                  ELSE FirstRunEnd(pieces[i]))
          ELSE Paint(HlNormal, pieces[i]))
         \o PiecesSplit(pieces, i + 1, rightmost)

\* what highlight wrote for the text before the first start token
FirstPieceOut == HlPart(PH_END, Split(HlS, PH_START)[1], HlNormal, HlHl)

\* C10 as the spec states it: every piece after a start token that holds the end
\* token is split at the rightmost occurrence of the end token in it.
C10_RightmostSplit ==
    PlaceholderWithStart =>
        HlOut = FirstPieceOut \o PiecesSplit(Split(HlS, PH_START), 2, TRUE)

\* C10, amended: every piece after a start token that holds the end token is split
\* in its first run of two or more closing braces, at the start of the run when the
\* run has an even number of braces and one brace later when it has an odd number;
\* the text before the split is highlighted, the two characters at the split are
\* dropped and all the text after them is normal, further end tokens included.
C10_FirstRunSplit ==
    PlaceholderWithStart =>
        HlOut = FirstPieceOut \o PiecesSplit(Split(HlS, PH_START), 2, FALSE)

C10_Witness ==
    /\ PlaceholderWithStart
    /\ HlS = PH_START \o PH_END \o <<"a">> \o PH_END
    /\ HlHl = "placeholder"
    /\ HlOut = <<"example", RESET, "placeholder", RESET, "example", "a", "}", "}", RESET>>

----------------------------------------------------------------------------
(* Properties of render, under Spec and SpecLine *)

\* render has dispatched a line: it is line lnum of the page, as read
Processed == lnum >= 1 /\ lnum <= Len(doc)
TheLine == doc[lnum]

\* line l begins with the two characters a and b
Begins(l, a, b) == Len(l) >= 2 /\ l[1] = a /\ l[2] = b

\* the role the spec gives line l, by its rules in their order
RoleOf(l) ==
    CASE Begins(l, "#", " ") -> "Title"
      [] ~Begins(l, "#", " ") /\ Begins(l, ">", " ") -> "Description"
      [] ~Begins(l, "#", " ") /\ ~Begins(l, ">", " ") /\ Begins(l, "-", " ") -> "Bullet"
      [] ~Begins(l, "#", " ") /\ ~Begins(l, ">", " ") /\ ~Begins(l, "-", " ")
         /\ Len(l) >= 1 /\ l[1] = Backtick -> "Example"
      [] ~Begins(l, "#", " ") /\ ~Begins(l, ">", " ") /\ ~Begins(l, "-", " ")
         /\ ~(Len(l) >= 1 /\ l[1] = Backtick)
         /\ (\A i \in 1..Len(l) : l[i] \in Whitespace) -> "Blank"
      [] OTHER -> "Invalid"

\* C1: the branch render takes for a line is the role the rules give it, in their
\* order: Title, Description, Bullet, Example, Blank, else Invalid; it is decided by
\* the text of the line alone and every line gets one.
C1_Classification ==
    Processed =>
        /\ role \in {"Title", "Description", "Bullet", "Example", "Blank", "Invalid"}
        /\ role = RoleOf(TheLine)

C1_Witness ==
    /\ Processed
    /\ TheLine = <<"#", "a", "\n">>
    /\ role = "Invalid"

\* line l has a closing backtick: a backtick after its first character with
\* nothing but whitespace after it
ClosingBacktick(l) ==
    \E i \in 2..Len(l) : l[i] = Backtick /\ \A j \in (i + 1)..Len(l) : l[j] \in Whitespace

\* line l is a violation: Invalid, or an Example line without its closing backtick
Violation(l) ==
    \/ RoleOf(l) = "Invalid"
    \/ RoleOf(l) = "Example" /\ ~ClosingBacktick(l)

\* the number of the first violating line of the page, 0 if it has none
FirstViolation ==
    IF \E k \in 1..Len(doc) : Violation(doc[k])
    THEN CHOOSE k \in 1..Len(doc) :
             Violation(doc[k]) /\ \A j \in 1..(k - 1) : ~Violation(doc[j])
    ELSE 0

\* C2: render fails with a ParseError that names line k exactly when line k is the
\* first line that is Invalid or an Example line without its closing backtick;
\* render stops there, no later line is read, and it reaches Done exactly when the
\* page has no such line.
C2_FirstViolation ==
    /\ state = "Failed" =>
           /\ FirstViolation # 0
           /\ err # <<>> /\ err.kind = "ParsePage" /\ err.lnum = FirstViolation
           /\ lnum = FirstViolation
           /\ ~flushed
           /\ ~ENABLED Next
    /\ state = "Done" => FirstViolation = 0 /\ err = <<>> /\ lnum = Len(doc) + 1
    /\ state = "ReadingLines" =>
           /\ err = <<>>
           /\ lnum <= Len(doc)
           /\ FirstViolation # 0 => lnum < FirstViolation

C2_Witness ==
    /\ state = "Failed"
    /\ Len(doc) = 3
    /\ err.lnum = 2
    /\ lnum = 2

\* line l, with its trailing whitespace trimmed, ends with a backtick
EndsWithBacktick(l) ==
    \E i \in 1..Len(l) : l[i] = Backtick /\ \A j \in (i + 1)..Len(l) : l[j] \in Whitespace

\* C6 as the spec states it: an Example line is rendered without error exactly when
\* the line, its trailing whitespace trimmed, ends with a backtick.
C6_EndsWithBacktick ==
    (Processed /\ role = "Example") =>
        (state # "Failed" <=> EndsWithBacktick(TheLine))

\* C6, amended: an Example line is rendered without error exactly when the text
\* after its opening backtick, trailing whitespace trimmed, ends with a backtick
\* (the opening backtick does not count as the closing one), and fails with a
\* ParseError otherwise, whatever its length and its escaped brace runs.
C6_ClosingBacktick ==
    (Processed /\ role = "Example") =>
        /\ state # "Failed" <=> ClosingBacktick(TheLine)
        /\ state = "Failed" <=> (err # <<>> /\ err.kind = "ParsePage")
        /\ state # "Failed" => stdout # <<>>

C6_Witness ==
    /\ Processed
    /\ role = "Example"
    /\ state = "ReadingLines"
    /\ TheLine = EXAMPLE \o ESC_OPEN \o <<"a">> \o ESC_CLOSE \o BQ
    /\ stdout # <<>>

\* an Example line was written and render has not gone on
ExampleWritten ==
    /\ Processed
    /\ lnum = 1
    /\ role = "Example"
    /\ state = "ReadingLines"

\* C4 as the spec states it: the text written for an Example line holds each
\* escaped brace run of the line verbatim, backslashes included.
C4_EscapedVerbatim ==
    ExampleWritten =>
        /\ Occurs(ESC_OPEN, TheLine) => Occurs(ESC_OPEN, Stripped(stdout))
        /\ Occurs(ESC_CLOSE, TheLine) => Occurs(ESC_CLOSE, Stripped(stdout))

\* the text between the backticks of a closed Example line, as read
Between(l) == LET t == TrimEnd(l) IN SubSeq(t, 2, Len(t) - 1)

\* each escaped brace run of text t taken as one character that is no brace
Opaque(t) == Replace(Replace(t, ESC_OPEN, <<"OPEN">>), ESC_CLOSE, <<"CLOSE">>)

\* each such character written as the two braces it escapes
Unescaped(t) == Replace(Replace(t, <<"OPEN">>, PH_START), <<"CLOSE">>, PH_END)

\* C4, amended: with styles that paint, the text written for an Example line that
\* holds an escaped brace run is what highlighting writes when each run is one
\* character that is no delimiter, with that character written as the two braces
\* it escapes: the backslashes are removed, no space is added or removed around
\* the run, the run starts or ends no placeholder, and it has the style of the
\* text around it (normal outside a placeholder, the placeholder style inside one).
C4_EscapedUnescaped ==
    (ExampleWritten /\ cfg.colored
     /\ (Occurs(ESC_OPEN, TheLine) \/ Occurs(ESC_CLOSE, TheLine))) =>
        stdout = Repeat(" ", cfg.indent.example)
                 \o Unescaped(highlight(PH_START, PH_END, Opaque(Between(TheLine)),
                                        "example", "placeholder"))
                 \o <<"\n">>

C4_Witness ==
    /\ ExampleWritten
    /\ cfg.colored
    /\ cfg.indent.example = 0
    /\ TheLine = EXAMPLE \o PH_START \o ESC_OPEN \o PH_END \o BQ
    /\ stdout = <<"example", RESET, "placeholder", "{", "{", RESET,
                  "example", RESET, "\n">>

\* what a step of render writes
Written == SubSeq(stdout', Len(stdout) + 1, Len(stdout'))

\* the number of newlines in text t
Newlines(t) == Len(SelectSeq(t, LAMBDA c : c = "\n"))

\* a step of render's loop that reads a line and takes branch r
Takes(r) == state = "ReadingLines" /\ lnum < Len(doc) /\ lnum' = lnum + 1 /\ role' = r

\* the end-of-render pass
Ends == state = "ReadingLines" /\ state' = "Done"

\* C7 as the spec states it: whatever the other flags, with compact mode on no
\* newline is written before the Title, for a Blank line or at the end of render;
\* with compact mode off exactly one is written before the Title, one for each
\* Blank line and one at the end of render.
C7_WhateverTheFlags ==
    [][ /\ Takes("Title") =>
              IF cfg.compact THEN Newlines(Written) <= Newlines(doc[lnum'])
              ELSE /\ Written # <<>> /\ Written[1] = "\n"
                   /\ Newlines(Written) = Newlines(doc[lnum']) + 1
        /\ Takes("Blank") => Written = (IF cfg.compact THEN <<>> ELSE <<"\n">>)
        /\ Ends => Written = (IF cfg.compact THEN <<>> ELSE <<"\n">>)
      ]_vars

\* C7, amended: with compact mode on no newline is written before the Title, for
\* a Blank line or at the end of a render that succeeds; with compact mode off
\* exactly one newline is written for each Blank line and one at the end of a
\* render that succeeds, and exactly one before the Title when show_title is on:
\* with show_title off the Title line writes nothing, no blank line either.
C7_Compaction ==
    [][ /\ Takes("Title") =>
              IF ~cfg.show_title THEN Written = <<>>
              ELSE IF cfg.compact THEN Newlines(Written) = Newlines(doc[lnum'])
              ELSE /\ Written # <<>> /\ Written[1] = "\n"
                   /\ Newlines(Written) = Newlines(doc[lnum']) + 1
        /\ Takes("Blank") => Written = (IF cfg.compact THEN <<>> ELSE <<"\n">>)
        /\ Ends => Written = (IF cfg.compact THEN <<>> ELSE <<"\n">>)
      ]_vars

C7_Witness ==
    /\ state = "Done"
    /\ ~cfg.compact
    /\ cfg.show_title
    /\ Len(doc) = 2
    /\ RoleOf(doc[1]) = "Title"
    /\ RoleOf(doc[2]) = "Blank"
    /\ Newlines(stdout) = 4

\* C8: the line a ParseError carries is the offending line as it was read.
C8_ErrorLineAsRead == state = "Failed" => err.line = doc[lnum]

====
